---- MODULE Spec2Model ----
(***************************************************************************)
(* Delta synchronisation of an LDAP directory into the local LMDB stores  *)
(* (server/sync.js) together with the admin manual-contact routes         *)
(* (server/routes/users.js) that write the same primary store.            *)
(***************************************************************************)
EXTENDS Integers, Sequences, FiniteSets, TLC

(***************************************************************************)
(* Bounds of the exploration.                                              *)
(***************************************************************************)
\* Runs of the sync process plus admin requests in one behaviour.
MaxRuns == 3
\* Entries in one search result.
MaxEntries == 2
\* Runs that end in an error in one behaviour.
MaxFailures == 1
\* Values in one call of tokenize.
MaxValues == 2

(***************************************************************************)
(* Values.  NULL stands for JavaScript null / undefined.  Text values are  *)
(* strings; Chars gives the characters of each text value, because the     *)
(* tokenizer works on characters.                                          *)
(***************************************************************************)
NULL == "<null>"

DN_A == "CN=A,OU=X"
DN_B == "CN=B,OU=X"
ManualIds == {"1"}

buildManualDn(id) == "MANUAL:" \o id

ManualDNs == {buildManualDn(id) : id \in ManualIds}
DNs == {DN_A, DN_B} \cup ManualDNs

\* LMDB iterates keys in byte order.
DNOrder == <<DN_A, DN_B, "MANUAL:1">>

Chars ==
  [s \in {"Jo X", "ab cd", "ab-ef", "j@x.io", "AB", "x", "ab ab", "A+B 9x", "Zoë B",
          "Jane Doe", "jane.doe@x.com"} |->
     CASE s = "Jo X" -> <<"J", "o", " ", "X">>
       [] s = "ab cd" -> <<"a", "b", " ", "c", "d">>
       [] s = "ab-ef" -> <<"a", "b", "-", "e", "f">>
       [] s = "j@x.io" -> <<"j", "@", "x", ".", "i", "o">>
       [] s = "AB" -> <<"A", "B">>
       [] s = "x" -> <<"x">>
       [] s = "ab ab" -> <<"a", "b", " ", "a", "b">>
       [] s = "A+B 9x" -> <<"A", "+", "B", " ", "9", "x">>
       [] s = "Zoë B" -> <<"Z", "o", "ë", " ", "B">>
       [] s = "Jane Doe" -> <<"J", "a", "n", "e", " ", "D", "o", "e">>
       [] s = "jane.doe@x.com" ->
            <<"j", "a", "n", "e", ".", "d", "o", "e", "@", "x", ".", "c", "o", "m">>]

Texts == DOMAIN Chars

\* String.prototype.toLowerCase on one character.
Upper == <<"A", "B", "C", "D", "E", "F", "J", "X", "Z">>
Lower == <<"a", "b", "c", "d", "e", "f", "j", "x", "z">>

RECURSIVE LowerFrom(_, _)
LowerFrom(c, i) ==
  IF i > Len(Upper) THEN c
  ELSE IF Upper[i] = c THEN Lower[i] ELSE LowerFrom(c, i + 1)

toLowerCase(cs) == [i \in 1..Len(cs) |-> LowerFrom(cs[i], 1)]

\* A split pattern that keeps letters and digits only.
TokenChars_Alnum ==
  {"a", "b", "c", "d", "e", "f", "g", "h", "i", "j", "k", "l", "m", "n", "o",
   "p", "q", "r", "s", "t", "u", "v", "w", "x", "y", "z",
   "0", "1", "2", "3", "4", "5", "6", "7", "8", "9"}

\* The characters the split pattern /[^a-z0-9@.+-]+/i keeps inside a token.
TokenChars ==
  {"a", "b", "c", "d", "e", "f", "g", "h", "i", "j", "k", "l", "m", "n", "o",
   "p", "q", "r", "s", "t", "u", "v", "w", "x", "y", "z",
   "0", "1", "2", "3", "4", "5", "6", "7", "8", "9", "@", ".", "+", "-"}

RECURSIVE JoinChars(_)
JoinChars(cs) == IF cs = <<>> THEN "" ELSE Head(cs) \o JoinChars(Tail(cs))

\* s.split(/[^a-z0-9@.+-]+/i): the maximal runs of token characters, in order.
RECURSIVE SplitFrom(_, _, _)
SplitFrom(cs, i, cur) ==
  IF i > Len(cs) THEN <<cur>>
  ELSE IF cs[i] \in TokenChars THEN SplitFrom(cs, i + 1, Append(cur, cs[i]))
  ELSE <<cur>> \o SplitFrom(cs, i + 1, <<>>)

Split(cs) == SplitFrom(cs, 1, <<>>)

InSeq(x, s) == \E i \in 1..Len(s) : s[i] = x
ToSet(s) == {s[i] : i \in 1..Len(s)}

\* out.add(t) on an insertion-ordered Set.
SetAdd(out, t) == IF InSeq(t, out) THEN out ELSE Append(out, t)

RECURSIVE AddParts(_, _, _)
\* tokenize keeping tokens of one character.
AddParts_NoMin(out, parts, i) ==
  IF i > Len(parts) THEN out
  ELSE IF Len(parts[i]) < 1 THEN AddParts(out, parts, i + 1)
  ELSE AddParts(SetAdd(out, JoinChars(parts[i])), parts, i + 1)

AddParts(out, parts, i) ==
  IF i > Len(parts) THEN out
  ELSE IF Len(parts[i]) < 2 THEN AddParts(out, parts, i + 1)
  ELSE AddParts(SetAdd(out, JoinChars(parts[i])), parts, i + 1)

Falsy(v) == v = NULL \/ v = ""

RECURSIVE TokenizeFrom(_, _, _)
TokenizeFrom(out, values, i) ==
  IF i > Len(values) THEN out
  ELSE IF Falsy(values[i]) THEN TokenizeFrom(out, values, i + 1)
  ELSE TokenizeFrom(AddParts(out, Split(toLowerCase(Chars[values[i]])), 1),
                    values, i + 1)

tokenize(values) == TokenizeFrom(<<>>, values, 1)

\* v || null
OrNull(v) == IF Falsy(v) THEN NULL ELSE v

(***************************************************************************)
(* normalizeGUID: a 36-character hex string is lower-cased, anything else  *)
(* is hashed; the hash is injective on the raw identifiers used here.      *)
(***************************************************************************)
RawGUIDs == {"buf1", "AAAAAAAA-0000-0000-0000-000000000001"}

normalizeGUID(guid) ==
  IF Falsy(guid) THEN NULL
  ELSE IF guid = "AAAAAAAA-0000-0000-0000-000000000001"
       THEN "aaaaaaaa-0000-0000-0000-000000000001"
  ELSE "sha1:" \o guid

(***************************************************************************)
(* The directory.  A raw entry carries the attributes the search asks for; *)
(* the attributes modelled are the key attributes and three of the         *)
(* searchable ones (all others are copied by the same `e.x || null`).      *)
(***************************************************************************)
RawEntry(dName, d, g, name, mail, title) ==
  [distinguishedName |-> dName, dn |-> d, objectGUID |-> g,
   displayName |-> name, mail |-> mail, title |-> title]

A1 == RawEntry(DN_A, DN_A, "buf1", "Jo X", NULL, "ab cd")
A2 == RawEntry(DN_A, DN_A, "buf1", "Jo X", NULL, "ab-ef")
A3 == RawEntry(DN_A, DN_A, "AAAAAAAA-0000-0000-0000-000000000001", "Jo X", NULL, "ab cd")
B1 == RawEntry(DN_B, DN_B, "buf1", "", NULL, "ab cd")
B0 == RawEntry(NULL, DN_B, NULL, "Jo X", "j@x.io", NULL)
M1 == RawEntry("MANUAL:1", "MANUAL:1", "AAAAAAAA-0000-0000-0000-000000000001", NULL, NULL, "ab cd")
N0 == RawEntry(NULL, NULL, "buf1", "Jo X", NULL, NULL)

EntryPool == {A1, A2, A3, B1, B0, M1, N0}

\* const dn = e.distinguishedName || e.dn
EntryDN(e) == IF Falsy(e.distinguishedName) THEN OrNull(e.dn) ELSE e.distinguishedName

\* A directory holds one entry per dn and one entry per objectGUID.
ValidSnapshot(s) ==
  \A i, j \in 1..Len(s) :
    i # j =>
      /\ EntryDN(s[i]) = NULL \/ EntryDN(s[i]) # EntryDN(s[j])
      /\ EntryDN(s[i]) = NULL \/ EntryDN(s[j]) = NULL
           \/ normalizeGUID(s[i].objectGUID) = NULL
           \/ normalizeGUID(s[i].objectGUID) # normalizeGUID(s[j].objectGUID)

Snapshots ==
  {s \in UNION {[1..n -> EntryPool] : n \in 0..MaxEntries} : ValidSnapshot(s)}

\* The dns of a search result that the pass adds to seenDNs.
SnapshotDNs(s) == {EntryDN(s[i]) : i \in 1..Len(s)} \ {NULL}

(***************************************************************************)
(* Records.  The record the pass builds has no isManual field; the record  *)
(* the admin route builds has isManual = true.                             *)
(***************************************************************************)
SyncDoc(e, now) ==
  [dn |-> EntryDN(e),
   guid |-> normalizeGUID(e.objectGUID),
   email |-> OrNull(e.mail),
   displayName |-> OrNull(e.displayName),
   title |-> OrNull(e.title),
   syncedAt |-> now]

IsManual(doc) == "isManual" \in DOMAIN doc /\ doc.isManual = TRUE

DocTokens(doc) == tokenize(<<doc.email, doc.displayName, doc.title>>)

(***************************************************************************)
(* The LMDB stores: finite maps from key to value.                         *)
(***************************************************************************)
EmptyMap == [k \in {} |-> NULL]
Has(f, k) == k \in DOMAIN f
Put(f, k, v) == [x \in (DOMAIN f) \cup {k} |-> IF x = k THEN v ELSE f[x]]
Remove(f, k) == [x \in (DOMAIN f) \ {k} |-> f[x]]
GetOr(f, k, d) == IF Has(f, k) THEN f[k] ELSE d

EmptyStore ==
  [usersByDN |-> EmptyMap, usersByGUID |-> EmptyMap, indexDB |-> EmptyMap,
   userTokensByDN |-> EmptyMap, allDNs |-> EmptyMap]

Op(name, k, v) == [op |-> name, key |-> k, value |-> v]

\* addDNToToken without the test that the dn is already in the collection.
addDNToToken_NoTest(index, token, dn) ==
  Put(index, token, Append(GetOr(index, token, <<>>), dn))

\* addDNToToken(token, dn)
addDNToToken(index, token, dn) ==
  LET current == GetOr(index, token, <<>>)
  IN IF InSeq(dn, current) THEN index ELSE Put(index, token, Append(current, dn))

\* removeDNFromToken dropping the token's whole entry.
removeDNFromToken_DropEntry(index, token, dn) ==
  IF InSeq(dn, GetOr(index, token, <<>>)) THEN Remove(index, token) ELSE index

\* removeDNFromToken storing the emptied collection instead of removing the key.
removeDNFromToken_KeepEmpty(index, token, dn) ==
  LET current == GetOr(index, token, <<>>)
      next == SelectSeq(current, LAMBDA x : x # dn)
  IN IF Len(next) # Len(current) THEN Put(index, token, next) ELSE index

\* removeDNFromToken(token, dn)
removeDNFromToken(index, token, dn) ==
  LET current == GetOr(index, token, <<>>)
      next == SelectSeq(current, LAMBDA x : x # dn)
  IN IF Len(next) = 0 THEN Remove(index, token)
     ELSE IF Len(next) # Len(current) THEN Put(index, token, next)
     ELSE index

\* One store operation applied to the stores.
Apply(st, o) ==
  CASE o.op = "usersByDN.put" -> [st EXCEPT !.usersByDN = Put(@, o.key, o.value)]
    [] o.op = "usersByDN.remove" -> [st EXCEPT !.usersByDN = Remove(@, o.key)]
    [] o.op = "usersByGUID.put" -> [st EXCEPT !.usersByGUID = Put(@, o.key, o.value)]
    [] o.op = "usersByGUID.remove" -> [st EXCEPT !.usersByGUID = Remove(@, o.key)]
    [] o.op = "allDNs.put" -> [st EXCEPT !.allDNs = Put(@, o.key, 1)]
    [] o.op = "allDNs.remove" -> [st EXCEPT !.allDNs = Remove(@, o.key)]
    [] o.op = "userTokensByDN.put" -> [st EXCEPT !.userTokensByDN = Put(@, o.key, o.value)]
    [] o.op = "userTokensByDN.remove" -> [st EXCEPT !.userTokensByDN = Remove(@, o.key)]
    [] o.op = "addDNToToken" -> [st EXCEPT !.indexDB = addDNToToken(@, o.key, o.value)]
    [] o.op = "removeDNFromToken" -> [st EXCEPT !.indexDB = removeDNFromToken(@, o.key, o.value)]

\* The operations of ops whose position is in W, applied in order.
RECURSIVE ApplyFrom(_, _, _, _)
ApplyFrom(st, ops, W, i) ==
  IF i > Len(ops) THEN st
  ELSE ApplyFrom(IF i \in W THEN Apply(st, ops[i]) ELSE st, ops, W, i + 1)

ApplyOps(st, ops, W) == ApplyFrom(st, ops, W, 1)
ApplyAll(st, ops) == ApplyOps(st, ops, 1..Len(ops))

MapSeq(s, F(_)) == [i \in 1..Len(s) |-> F(s[i])]

\* new Set(array), in insertion order
RECURSIVE DedupFrom(_, _, _)
DedupFrom(out, s, i) ==
  IF i > Len(s) THEN out ELSE DedupFrom(SetAdd(out, s[i]), s, i + 1)
Dedup(s) == DedupFrom(<<>>, s, 1)

\* updateIndexForUser appending to the stored token list instead of replacing it.
updateIndexForUser_Append(st, dn, newTokens) ==
  LET prev == GetOr(st.userTokensByDN, dn, <<>>)
      prevSet == Dedup(prev)
      newSet == Dedup(newTokens)
      toAdd == SelectSeq(newSet, LAMBDA t : ~InSeq(t, prevSet))
      toRemove == SelectSeq(prevSet, LAMBDA t : ~InSeq(t, newSet))
  IN MapSeq(toAdd, LAMBDA t : Op("addDNToToken", t, dn))
       \o MapSeq(toRemove, LAMBDA t : Op("removeDNFromToken", t, dn))
       \o <<Op("userTokensByDN.put", dn, prev \o newSet)>>

\* The store operations of updateIndexForUser(dn, newTokens), in program order.
updateIndexForUser(st, dn, newTokens) ==
  LET prevSet == Dedup(GetOr(st.userTokensByDN, dn, <<>>))
      newSet == Dedup(newTokens)
      toAdd == SelectSeq(newSet, LAMBDA t : ~InSeq(t, prevSet))
      toRemove == SelectSeq(prevSet, LAMBDA t : ~InSeq(t, newSet))
  IN MapSeq(toAdd, LAMBDA t : Op("addDNToToken", t, dn))
       \o MapSeq(toRemove, LAMBDA t : Op("removeDNFromToken", t, dn))
       \o <<Op("userTokensByDN.put", dn, newSet)>>

\* The store writes of deleteUser(dn), in program order.
deleteUser(st, dn) ==
  IF Falsy(dn) THEN <<>>
  ELSE IF ~Has(st.usersByDN, dn) THEN <<>>
  ELSE IF IsManual(st.usersByDN[dn]) THEN <<>>
  ELSE LET doc == st.usersByDN[dn]
           tokens == GetOr(st.userTokensByDN, dn, <<>>)
       IN (IF Falsy(doc.guid) THEN <<>> ELSE <<Op("usersByGUID.remove", doc.guid, NULL)>>)
            \o MapSeq(tokens, LAMBDA t : Op("removeDNFromToken", t, dn))
            \o <<Op("userTokensByDN.remove", dn, NULL),
                 Op("usersByDN.remove", dn, NULL),
                 Op("allDNs.remove", dn, NULL)>>

\* The upsert without the manual check.
SkipManual_NoCheck(st, dn) == FALSE

\* if (existingDoc && existingDoc.isManual) continue
SkipManual(st, dn) == Has(st.usersByDN, dn) /\ IsManual(st.usersByDN[dn])

\* The upsert without the write to allDNs.
UpsertOps_NoKnown(doc) ==
  <<Op("usersByDN.put", doc.dn, doc)>>
    \o (IF Falsy(doc.guid) THEN <<>> ELSE <<Op("usersByGUID.put", doc.guid, doc)>>)

\* The three writes handed to Promise.all.
UpsertOps(doc) ==
  <<Op("usersByDN.put", doc.dn, doc)>>
    \o (IF Falsy(doc.guid) THEN <<>> ELSE <<Op("usersByGUID.put", doc.guid, doc)>>)
    \o <<Op("allDNs.put", doc.dn, 1)>>

\* The stores after one loop iteration of Phase 3 that ran to its end.
ProcessedStore_TrackFirst(st, e, now) ==
  LET dn == EntryDN(e)
  IN IF dn = NULL THEN st
     ELSE IF SkipManual(st, dn) THEN Apply(st, Op("allDNs.put", dn, 1))
     ELSE LET doc == SyncDoc(e, now)
              st1 == ApplyAll(st, UpsertOps(doc))
          IN ApplyAll(st1, updateIndexForUser(st1, dn, DocTokens(doc)))

ProcessedStore(st, e, now) ==
  LET dn == EntryDN(e)
  IN IF dn = NULL THEN st
     ELSE IF SkipManual(st, dn) THEN st
     ELSE LET doc == SyncDoc(e, now)
              st1 == ApplyAll(st, UpsertOps(doc))
          IN ApplyAll(st1, updateIndexForUser(st1, dn, DocTokens(doc)))

SortedSeq(S) == SelectSeq(DNOrder, LAMBDA d : d \in S)

\* The keys Phase 1 loads.
LoadKnown(st) == {k \in DOMAIN st.allDNs : ~Falsy(k)}

(***************************************************************************)
(* State.                                                                  *)
(***************************************************************************)
VARIABLES
  usersByDN, usersByGUID, indexDB, userTokensByDN, allDNs,  \* the stores
  db,              \* the root store, holding "meta:lastSync"
  directory,       \* what the directory search returns
  clock,           \* time: advances with every run of the sync process
  issued,          \* ids randomUUID has produced
  phase, exited, exitCode, client, dbHandle,                \* the sync process
  knownDNs, seenDNs, searchEntries, idx,
  upserts, deletes, entriesSkippedNoDN, entriesSkippedManual,
  failedIn,        \* the phase in which the pass failed, or NULL
  store0,          \* history: the stores when the pass began
  db0,             \* history: the root store when the pass began
  repeatOf,        \* history: outcome of the previous pass if it had the same directory
  expected,        \* history: what the previous, aborted pass would have produced
  reply,           \* status code of the last admin response, 0 before the first
  failures, adminOps,
  workers,         \* the index updates in progress when two run at once
  call,            \* a call of a pure function: its arguments and its result
  req              \* a call of the client's requestWithAuth in progress

storeVars == <<usersByDN, usersByGUID, indexDB, userTokensByDN, allDNs>>
passVars ==
  <<phase, exited, exitCode, client, dbHandle, knownDNs, seenDNs, searchEntries,
    idx, upserts, deletes, entriesSkippedNoDN, entriesSkippedManual, failedIn>>
histVars == <<store0, db0, repeatOf, expected>>
envVars == <<directory, clock, issued>>
otherVars == <<workers, call, req>>
vars ==
  <<storeVars, db, envVars, passVars, histVars, reply, failures, adminOps, otherVars>>

Store ==
  [usersByDN |-> usersByDN, usersByGUID |-> usersByGUID, indexDB |-> indexDB,
   userTokensByDN |-> userTokensByDN, allDNs |-> allDNs]

SetStore(s) ==
  /\ usersByDN' = s.usersByDN
  /\ usersByGUID' = s.usersByGUID
  /\ indexDB' = s.indexDB
  /\ userTokensByDN' = s.userTokensByDN
  /\ allDNs' = s.allDNs

\* new Date().toISOString()
Now == clock

\* No index update in progress, no call made.
NoWorkers == <<>>
\* No request of the client is in progress.
NoRequest == [pc |-> "none"]

NoCall == [fn |-> "none", args |-> <<>>, result |-> <<>>, returned |-> FALSE]

Init ==
  /\ usersByDN = EmptyMap
  /\ usersByGUID = EmptyMap
  /\ indexDB = EmptyMap
  /\ userTokensByDN = EmptyMap
  /\ allDNs = EmptyMap
  /\ db = EmptyMap
  /\ directory = <<>>
  /\ clock = 0
  /\ issued = {}
  /\ phase = "NotStarted"
  /\ exited = TRUE
  /\ exitCode = 0
  /\ client = "none"
  /\ dbHandle = "closed"
  /\ knownDNs = {}
  /\ seenDNs = {}
  /\ searchEntries = <<>>
  /\ idx = 0
  /\ upserts = 0
  /\ deletes = 0
  /\ entriesSkippedNoDN = 0
  /\ entriesSkippedManual = 0
  /\ failedIn = NULL
  /\ store0 = EmptyStore
  /\ db0 = EmptyMap
  /\ repeatOf = "none"
  /\ expected = EmptyStore
  /\ reply = 0
  /\ failures = 0
  /\ adminOps = 0
  /\ workers = NoWorkers
  /\ call = NoCall
  /\ req = NoRequest

(***************************************************************************)
(* The sync process: one run of main().                                    *)
(***************************************************************************)
\* A directory cannot hold a MANUAL:<uuid> dn before randomUUID has produced it.
Offered ==
  {s \in Snapshots : \A d \in SnapshotDNs(s) : d \in ManualDNs => d \in {buildManualDn(i) : i \in issued}}

\* Strip what differs between two runs by time alone.
NoTime(doc) == [doc EXCEPT !.syncedAt = 0]
NoTimeMap(f) == [k \in DOMAIN f |-> NoTime(f[k])]
NoTimeStore(s) ==
  [s EXCEPT !.usersByDN = NoTimeMap(@), !.usersByGUID = NoTimeMap(@)]

RECURSIVE ProcessAll(_, _, _, _)
ProcessAll(st, entries, i, now) ==
  IF i > Len(entries) THEN st
  ELSE ProcessAll(ProcessedStore(st, entries[i], now), entries, i + 1, now)

RECURSIVE DeleteAll(_, _, _)
DeleteAll(st, queue, i) ==
  IF i > Len(queue) THEN st
  ELSE DeleteAll(ApplyAll(st, deleteUser(st, queue[i])), queue, i + 1)

\* The stores one uninterrupted pass over entries leaves, starting from st.
RunPass(st, entries, now) ==
  DeleteAll(ProcessAll(st, entries, 1, now),
            SortedSeq(LoadKnown(st) \ SnapshotDNs(entries)), 1)

FailedLate == phase = "Failed" /\ failedIn \in {"Processing", "Deleting"}

\* The variables of main() do not outlive the process.
ResetPass ==
  /\ knownDNs' = {}
  /\ seenDNs' = {}
  /\ searchEntries' = <<>>
  /\ idx' = 0
  /\ upserts' = 0
  /\ deletes' = 0
  /\ entriesSkippedNoDN' = 0
  /\ entriesSkippedManual' = 0
  /\ store0' = EmptyStore
  /\ db0' = EmptyMap

\* What a run ended as, for a next run over an unchanged directory.
Outcome == IF phase = "Finalized" THEN "Finalized"
           ELSE IF FailedLate THEN "Failed"
           ELSE "none"

\* The process starts with its configuration present: main() up to Phase 1.
\* The directory either is as the previous run saw it, or has changed; what it
\* has changed to shows when it is searched.
StartPass ==
  /\ exited
  /\ clock + adminOps < MaxRuns
  /\ clock' = clock + 1
  /\ \E same \in BOOLEAN :
       /\ same => repeatOf # "none"
       /\ repeatOf' = IF same THEN repeatOf ELSE "none"
       /\ directory' = IF same THEN directory ELSE <<>>
       /\ expected' = IF same THEN expected ELSE EmptyStore
  /\ store0' = Store
  /\ db0' = db
  /\ phase' = "LoadingKnown"
  /\ exited' = FALSE
  /\ exitCode' = 0
  /\ client' = "created"
  /\ dbHandle' = "open"
  /\ failedIn' = NULL
  /\ UNCHANGED <<otherVars, reply, storeVars, db, issued, failures, adminOps,
                 knownDNs, seenDNs, searchEntries, idx, upserts, deletes,
                 entriesSkippedNoDN, entriesSkippedManual>>

\* validateLdapConfig ending the process with code 0.
StartPassNoConfig_ExitZero ==
  /\ exited
  /\ clock + adminOps < MaxRuns
  /\ clock' = clock + 1
  /\ phase' = "ConfigMissing"
  /\ exited' = TRUE
  /\ exitCode' = 0
  /\ client' = "none"
  /\ dbHandle' = "open"
  /\ failedIn' = NULL
  /\ repeatOf' = "none"
  /\ directory' = <<>>
  /\ expected' = EmptyStore
  /\ UNCHANGED <<otherVars, reply, storeVars, db, issued, failures, adminOps, store0,
                 db0, knownDNs, seenDNs, searchEntries, idx, upserts, deletes,
                 entriesSkippedNoDN, entriesSkippedManual>>

\* validateLdapConfig: LDAP env missing and not test mode, process.exit(1).
StartPassNoConfig ==
  /\ exited
  /\ clock + adminOps < MaxRuns
  /\ clock' = clock + 1
  /\ phase' = "ConfigMissing"
  /\ exited' = TRUE
  /\ exitCode' = 1
  /\ client' = "none"
  /\ dbHandle' = "open"
  /\ failedIn' = NULL
  /\ repeatOf' = "none"
  /\ directory' = <<>>
  /\ expected' = EmptyStore
  /\ UNCHANGED <<otherVars, reply, storeVars, db, issued, failures, adminOps, store0,
                 db0, knownDNs, seenDNs, searchEntries, idx, upserts, deletes,
                 entriesSkippedNoDN, entriesSkippedManual>>

\* main(): LDAP env missing in test mode, the sync is skipped.
StartPassTestMode ==
  /\ exited
  /\ clock + adminOps < MaxRuns
  /\ clock' = clock + 1
  /\ phase' = "Skipped"
  /\ exited' = TRUE
  /\ exitCode' = 0
  /\ client' = "none"
  /\ dbHandle' = "closed"
  /\ failedIn' = NULL
  /\ repeatOf' = "none"
  /\ directory' = <<>>
  /\ expected' = EmptyStore
  /\ UNCHANGED <<otherVars, reply, storeVars, db, issued, failures, adminOps, store0,
                 db0, knownDNs, seenDNs, searchEntries, idx, upserts, deletes,
                 entriesSkippedNoDN, entriesSkippedManual>>

\* The catch block without process.exitCode = 1.
Fail_NoExitCode(in) ==
  /\ failures < MaxFailures
  /\ failures' = failures + 1
  /\ phase' = "Failed"
  /\ failedIn' = in
  /\ exitCode' = exitCode

\* catch (err) { ... process.exitCode = 1 }
Fail(in) ==
  /\ failures < MaxFailures
  /\ failures' = failures + 1
  /\ phase' = "Failed"
  /\ failedIn' = in
  /\ exitCode' = 1

\* Phase 1 clearing the index for a full rebuild.
LoadKnownDNs_Rebuild ==
  /\ phase = "LoadingKnown" /\ ~exited
  /\ knownDNs' = LoadKnown(Store)
  /\ phase' = "Binding"
  /\ indexDB' = EmptyMap
  /\ userTokensByDN' = EmptyMap
  /\ UNCHANGED <<otherVars, reply, usersByDN, usersByGUID, allDNs, db, envVars, histVars, failures,
                 adminOps, exited, exitCode, client, dbHandle, seenDNs, searchEntries,
                 idx, upserts, deletes, entriesSkippedNoDN, entriesSkippedManual,
                 failedIn>>

\* Phase 1: the known DNs are read from allDNs.
LoadKnownDNs ==
  /\ phase = "LoadingKnown" /\ ~exited
  /\ knownDNs' = LoadKnown(Store)
  /\ phase' = "Binding"
  /\ UNCHANGED <<otherVars, reply, storeVars, db, envVars, histVars, failures, adminOps,
                 exited, exitCode, client, dbHandle, seenDNs, searchEntries, idx,
                 upserts, deletes, entriesSkippedNoDN, entriesSkippedManual, failedIn>>

\* Phase 1 runs before the try block: a rejected getKeys rejects main(), and
\* neither the catch nor the finally block runs.
LoadKnownDNsFail ==
  /\ phase = "LoadingKnown" /\ ~exited
  /\ failures < MaxFailures
  /\ failures' = failures + 1
  /\ phase' = "Failed"
  /\ failedIn' = "LoadingKnown"
  /\ UNCHANGED <<otherVars, reply, storeVars, db, envVars, histVars, adminOps, exited, exitCode,
                 client, dbHandle, knownDNs, seenDNs, searchEntries, idx, upserts,
                 deletes, entriesSkippedNoDN, entriesSkippedManual>>

\* main(); at top level: the rejection is unhandled.  Whether the process ends
\* with a non-zero code is up to the runtime's unhandled-rejection mode.
UnhandledRejection ==
  /\ phase = "Failed" /\ failedIn = "LoadingKnown" /\ ~exited
  /\ exited' = TRUE
  /\ \E code \in {0, 1} : exitCode' = code
  /\ ResetPass
  /\ repeatOf' = "none"
  /\ directory' = <<>>
  /\ expected' = EmptyStore
  /\ UNCHANGED <<otherVars, reply, storeVars, db, clock, issued, failures, adminOps, phase,
                 failedIn, client, dbHandle>>

\* Phase 2: client.bind
Bind ==
  /\ phase = "Binding"
  /\ client' = "bound"
  /\ phase' = "Fetching"
  /\ UNCHANGED <<otherVars, reply, storeVars, db, envVars, histVars, failures, adminOps,
                 exited, exitCode, dbHandle, knownDNs, seenDNs, searchEntries, idx,
                 upserts, deletes, entriesSkippedNoDN, entriesSkippedManual, failedIn>>

BindFail ==
  /\ phase = "Binding"
  /\ Fail("Binding")
  /\ UNCHANGED <<otherVars, reply, storeVars, db, envVars, histVars, adminOps,
                 exited, client, dbHandle, knownDNs, seenDNs, searchEntries, idx,
                 upserts, deletes, entriesSkippedNoDN, entriesSkippedManual>>

\* The loop handing control back to the search when it is done.
PhaseAt_Again(i, entries) == IF i > Len(entries) THEN "Fetching" ELSE "Processing"

\* for ... of searchEntries.entries(): where the pass stands after entry i - 1
PhaseAt(i, entries) == IF i > Len(entries) THEN "Deleting" ELSE "Processing"

\* Phase 2: client.search returns the directory's entries.
Search ==
  /\ phase = "Fetching"
  /\ \E s \in (IF repeatOf = "none" THEN Offered ELSE {directory}) :
       /\ directory' = s
       /\ searchEntries' = s
       /\ phase' = PhaseAt(1, s)
  /\ idx' = 1
  /\ UNCHANGED <<otherVars, reply, storeVars, db, clock, issued, store0, db0, expected, repeatOf, failures,
                 adminOps, exited, exitCode, client, dbHandle, knownDNs,
                 seenDNs, upserts, deletes, entriesSkippedNoDN, entriesSkippedManual,
                 failedIn>>

SearchFail ==
  /\ phase = "Fetching"
  /\ Fail("Fetching")
  /\ UNCHANGED <<otherVars, reply, storeVars, db, envVars, histVars, adminOps,
                 exited, client, dbHandle, knownDNs, seenDNs, searchEntries, idx,
                 upserts, deletes, entriesSkippedNoDN, entriesSkippedManual>>

\* seenDNs.add before the test for a missing dn.
SeenAfter_AddFirst(seen, e) == seen \cup {EntryDN(e)}

\* seenDNs.add(dn), unless the entry has no dn
SeenAfter(seen, e) == IF EntryDN(e) = NULL THEN seen ELSE seen \cup {EntryDN(e)}

\* Phase 3: one iteration of the loop over searchEntries, run to its end.
ProcessEntry ==
  /\ phase = "Processing"
  /\ LET e == searchEntries[idx]
         dn == EntryDN(e)
     IN /\ seenDNs' = SeenAfter(seenDNs, e)
        /\ entriesSkippedNoDN' = entriesSkippedNoDN + (IF dn = NULL THEN 1 ELSE 0)
        /\ entriesSkippedManual' =
             entriesSkippedManual + (IF dn # NULL /\ SkipManual(Store, dn) THEN 1 ELSE 0)
        /\ upserts' = upserts + (IF dn # NULL /\ ~SkipManual(Store, dn) THEN 1 ELSE 0)
        /\ SetStore(ProcessedStore(Store, e, Now))
  /\ idx' = idx + 1
  /\ phase' = PhaseAt(idx + 1, searchEntries)
  /\ UNCHANGED <<otherVars, reply, db, envVars, histVars, failures, adminOps,
                 exited, exitCode, client, dbHandle, knownDNs, searchEntries,
                 deletes, failedIn>>

\* The stores a failed iteration can leave: the read of usersByDN fails, or
\* Promise.all rejects with some but not all of its writes done, or
\* updateIndexForUser throws at one of its store operations.
FailedEntryStores(st, e, now) ==
  LET dn == EntryDN(e)
      doc == SyncDoc(e, now)
      ups == UpsertOps(doc)
      st1 == ApplyAll(st, ups)
      ixs == updateIndexForUser(st1, dn, DocTokens(doc))
  IN IF SkipManual(st, dn) THEN {st}
     ELSE {st}
            \cup {ApplyOps(st, ups, W) : W \in (SUBSET (1..Len(ups))) \ {1..Len(ups)}}
            \cup {ApplyOps(st1, ixs, 1..k) : k \in 0..(Len(ixs) - 1)}

\* Phase 3 with a try/catch around the iteration that records the error and
\* goes on with the next entry.
ProcessEntryFail_Continue ==
  /\ phase = "Processing"
  /\ EntryDN(searchEntries[idx]) # NULL
  /\ seenDNs' = SeenAfter(seenDNs, searchEntries[idx])
  /\ \E s \in FailedEntryStores(Store, searchEntries[idx], Now) : SetStore(s)
  /\ failures < MaxFailures
  /\ failures' = failures + 1
  /\ failedIn' = "Processing"
  /\ exitCode' = 1
  /\ idx' = idx + 1
  /\ phase' = PhaseAt(idx + 1, searchEntries)
  /\ UNCHANGED <<otherVars, reply, db, envVars, histVars, adminOps,
                 exited, client, dbHandle, knownDNs, searchEntries,
                 upserts, deletes, entriesSkippedNoDN, entriesSkippedManual>>

\* Phase 3: a store operation of the iteration throws.
ProcessEntryFail ==
  /\ phase = "Processing"
  /\ EntryDN(searchEntries[idx]) # NULL
  /\ seenDNs' = SeenAfter(seenDNs, searchEntries[idx])
  /\ \E s \in FailedEntryStores(Store, searchEntries[idx], Now) : SetStore(s)
  /\ Fail("Processing")
  /\ UNCHANGED <<otherVars, reply, db, envVars, histVars, adminOps,
                 exited, client, dbHandle, knownDNs, searchEntries, idx,
                 upserts, deletes, entriesSkippedNoDN, entriesSkippedManual>>

\* Phase 4 without the seenDNs test.
ToDelete_All(known, seen) == SortedSeq(known)

\* for (const dn of knownDNs) if (!seenDNs.has(dn)) ...: the dns handed to deleteUser
ToDelete(known, seen) == SortedSeq(known \ seen)

\* Phase 4: one call of deleteUser, run to its end.
DeleteStep ==
  /\ phase = "Deleting"
  /\ deletes < Len(ToDelete(knownDNs, seenDNs))
  /\ LET dn == ToDelete(knownDNs, seenDNs)[deletes + 1]
         s == ApplyAll(Store, deleteUser(Store, dn))
     IN SetStore(s)
  /\ deletes' = deletes + 1
  /\ UNCHANGED <<otherVars, reply, db, envVars, histVars, failures, adminOps, phase, exited, exitCode, client, dbHandle, knownDNs,
                 seenDNs, searchEntries, idx, upserts, entriesSkippedNoDN,
                 entriesSkippedManual, failedIn>>

\* The stores a failed deleteUser can leave: it throws at one of its operations.
FailedDeleteStores(st, dn) ==
  LET ops == deleteUser(st, dn)
  IN {st} \cup {ApplyOps(st, ops, 1..k) : k \in 0..(Len(ops) - 1)}

\* Phase 4: a store operation of deleteUser throws.
DeleteStepFail ==
  /\ phase = "Deleting"
  /\ deletes < Len(ToDelete(knownDNs, seenDNs))
  /\ LET dn == ToDelete(knownDNs, seenDNs)[deletes + 1]
     IN \E s \in FailedDeleteStores(Store, dn) : SetStore(s)
  /\ Fail("Deleting")
  /\ UNCHANGED <<otherVars, reply, db, envVars, histVars, adminOps,
                 exited, client, dbHandle, knownDNs, seenDNs, searchEntries, idx,
                 upserts, deletes, entriesSkippedNoDN, entriesSkippedManual>>

\* db.put("meta:lastSync", ...)
LastSync(now, ups, dels, count) ==
  [at |-> now, baseDN |-> "DC=X", upserts |-> ups, deletes |-> dels, ldapCount |-> count]

WriteMeta ==
  /\ phase = "Deleting"
  /\ deletes = Len(ToDelete(knownDNs, seenDNs))
  /\ db' = Put(db, "meta:lastSync", LastSync(Now, upserts, deletes, Len(searchEntries)))
  /\ phase' = "Finalized"
  /\ UNCHANGED <<otherVars, reply, storeVars, envVars, histVars, failures, adminOps,
                 exited, exitCode, client, dbHandle, knownDNs, seenDNs, searchEntries,
                 idx, upserts, deletes, entriesSkippedNoDN, entriesSkippedManual,
                 failedIn>>

WriteMetaFail ==
  /\ phase = "Deleting"
  /\ deletes = Len(ToDelete(knownDNs, seenDNs))
  /\ Fail("Finalizing")
  /\ UNCHANGED <<otherVars, reply, storeVars, db, envVars, histVars, adminOps,
                 exited, client, dbHandle, knownDNs, seenDNs, searchEntries, idx,
                 upserts, deletes, entriesSkippedNoDN, entriesSkippedManual>>

\* finally { fileStream.end(); await client.unbind(); await db.close(); }
Finally ==
  /\ phase \in {"Finalized", "Failed"}
  /\ failedIn # "LoadingKnown"
  /\ ~exited
  /\ client' = "unbound"
  /\ dbHandle' = "closed"
  /\ exited' = TRUE
  /\ expected' =
       IF FailedLate THEN NoTimeStore(RunPass(store0, searchEntries, clock))
       ELSE EmptyStore
  /\ directory' = IF Outcome = "none" THEN <<>> ELSE directory
  /\ repeatOf' = Outcome
  /\ ResetPass
  /\ UNCHANGED <<otherVars, reply, storeVars, db, clock, issued, failures, adminOps,
                 phase, exitCode, failedIn>>

SyncNext ==
  \/ StartPass
  \/ StartPassNoConfig
  \/ StartPassTestMode
  \/ LoadKnownDNs
  \/ LoadKnownDNsFail
  \/ UnhandledRejection
  \/ Bind
  \/ BindFail
  \/ Search
  \/ SearchFail
  \/ ProcessEntry
  \/ ProcessEntryFail
  \/ DeleteStep
  \/ DeleteStepFail
  \/ WriteMeta
  \/ WriteMetaFail
  \/ Finally

(***************************************************************************)
(* The admin routes for manual contacts (the API server, a process of its  *)
(* own that shares the stores with the sync process).                      *)
(***************************************************************************)
\* A request body: the fields it leaves out are undefined.
Field(body, f) == IF f \in DOMAIN body THEN body[f] ELSE NULL

CreateBodies == {[displayName |-> "Jo X", title |-> "ab cd"], [title |-> "ab cd"]}
UpdateBodies == {[title |-> "ab-ef"]}

\* if (!displayName && !email) reply.code(400)
CreateRejected(body) == Falsy(Field(body, "displayName")) /\ Falsy(Field(body, "email"))

ManualDoc(id, body, now) ==
  [dn |-> buildManualDn(id),
   guid |-> NULL,
   email |-> OrNull(Field(body, "email")),
   displayName |-> OrNull(Field(body, "displayName")),
   title |-> OrNull(Field(body, "title")),
   isManual |-> TRUE,
   syncedAt |-> now]

\* x !== undefined ? x : existing.x
Updated(existing, body, now) ==
  [f \in DOMAIN existing |->
     IF f = "syncedAt" THEN now
     ELSE IF f \in {"email", "displayName", "title"} /\ f \in DOMAIN body THEN body[f]
     ELSE existing[f]]

\* The test for an existing record alone.
ManualFound_Any(byDN, dn) == Has(byDN, dn)

\* if (!existing || !existing.isManual) reply.code(404)
ManualFound(byDN, dn) == Has(byDN, dn) /\ IsManual(byDN[dn])

\* A request changes usersByDN under a MANUAL: dn alone, so it commutes with
\* every step of a pass but the one iteration that reads that dn; requests are
\* taken between two runs of the sync process.
Request ==
  /\ exited
  /\ clock + adminOps < MaxRuns
  /\ adminOps' = adminOps + 1
  /\ repeatOf' = "none"
  /\ expected' = EmptyStore
  /\ directory' = <<>>
  /\ UNCHANGED <<usersByGUID, indexDB, userTokensByDN, allDNs, db, clock,
                 passVars, store0, db0, failures, otherVars>>

\* POST /manual-users
ManualCreate ==
  /\ Request
  /\ \E body \in CreateBodies :
       IF CreateRejected(body)
       THEN /\ reply' = 400
            /\ UNCHANGED <<usersByDN, issued>>
       ELSE \E id \in ManualIds \ issued :
              /\ usersByDN' = Put(usersByDN, buildManualDn(id), ManualDoc(id, body, Now))
              /\ issued' = issued \cup {id}
              /\ reply' = 201

\* PUT /manual-users/:id
ManualUpdate ==
  /\ Request
  /\ \E id \in ManualIds, body \in UpdateBodies :
       LET dn == buildManualDn(id)
       IN IF ~ManualFound(usersByDN, dn)
          THEN /\ reply' = 404
               /\ UNCHANGED usersByDN
          ELSE /\ usersByDN' = Put(usersByDN, dn, Updated(usersByDN[dn], body, Now))
               /\ reply' = 200
  /\ UNCHANGED issued

\* DELETE /manual-users/:id
ManualDelete ==
  /\ Request
  /\ \E id \in ManualIds :
       LET dn == buildManualDn(id)
       IN IF ~ManualFound(usersByDN, dn)
          THEN /\ reply' = 404
               /\ UNCHANGED usersByDN
          ELSE /\ usersByDN' = Remove(usersByDN, dn)
               /\ reply' = 204
  /\ UNCHANGED issued

AdminNext ==
  \/ ManualCreate
  \/ ManualUpdate
  \/ ManualDelete

Next == SyncNext \/ AdminNext

Spec == Init /\ [][Next]_vars

(***************************************************************************)
(* Properties.                                                             *)
(***************************************************************************)
\* A step of the sync process (an admin request counts in adminOps).
SyncStep == adminOps' = adminOps

\* C1: no step of a sync pass changes or removes a record flagged isManual,
\* whatever the search result holds for its dn.
C1_ManualInvariance ==
  [][SyncStep =>
       \A d \in DOMAIN usersByDN :
         IsManual(usersByDN[d]) => Has(usersByDN', d) /\ usersByDN'[d] = usersByDN[d]]_vars

\* A pass has gone to its end over a search result that holds an entry under
\* the dn of a manual record, with other attribute values.
C1_Witness ==
  /\ phase = "Finalized"
  /\ "MANUAL:1" \in seenDNs
  /\ entriesSkippedManual = 1
  /\ ManualFound(usersByDN, "MANUAL:1")
  /\ usersByDN["MANUAL:1"].guid # normalizeGUID(M1.objectGUID)

IndexConsistent(st) ==
  /\ \A t \in DOMAIN st.indexDB : st.indexDB[t] # <<>>
  /\ \A t \in DOMAIN st.indexDB : \A d \in ToSet(st.indexDB[t]) :
       Has(st.userTokensByDN, d) /\ InSeq(t, st.userTokensByDN[d])
  /\ \A d \in DOMAIN st.userTokensByDN : \A t \in ToSet(st.userTokensByDN[d]) :
       Has(st.indexDB, t) /\ InSeq(d, st.indexDB[t])

\* C2: after any sequence of completed passes from the empty store, d is in
\* index[t] exactly when d's stored token set holds t, and no index entry is empty.
C2_IndexConsistency ==
  (failures = 0 /\ phase \notin {"Processing", "Deleting"}) => IndexConsistent(Store)

\* The dns whose record the pass has removed from the primary store.
Removed == (DOMAIN store0.usersByDN) \ (DOMAIN usersByDN)

\* A completed pass that removed a record and left an index entry shared by
\* nobody else.
C2_Witness ==
  /\ phase = "Finalized" /\ ~exited
  /\ failures = 0
  /\ Removed # {}
  /\ \E t \in DOMAIN indexDB : Len(indexDB[t]) = 1
  /\ \E t \in DOMAIN store0.indexDB : ~Has(indexDB, t)

C4_AsStated ==
  (phase = "Finalized" /\ failures = 0) =>
    /\ \A d \in DOMAIN usersByDN :
         (~IsManual(usersByDN[d]) /\ ~Falsy(usersByDN[d].guid)) =>
           /\ Has(usersByGUID, usersByDN[d].guid)
           /\ usersByGUID[usersByDN[d].guid] = usersByDN[d]
    /\ \A g \in DOMAIN usersByGUID :
         \E d \in DOMAIN usersByDN : usersByDN[d] = usersByGUID[g]

\* The pass is a second run over the directory of a completed run.
SecondRun == phase = "Finalized" /\ ~exited /\ repeatOf = "Finalized"

C6_FailedKeepsMeta ==
  (phase = "Failed" /\ failedIn # "LoadingKnown") =>
    /\ exitCode = 1
    /\ ~exited => db = db0

\* A pass failed in Phase 4 after an earlier pass had written meta:lastSync.
C6_Witness ==
  /\ phase = "Failed" /\ ~exited
  /\ failedIn = "Deleting"
  /\ Has(db, "meta:lastSync")
  /\ Store # store0

\* C7: a pass that failed in Phase 1, at the bind or at the search has
\* modified no store.
C7_EarlyFailureNoWrites ==
  (phase = "Failed" /\ ~exited /\ failedIn \in {"LoadingKnown", "Binding", "Fetching"}) =>
    (Store = store0 /\ db = db0)

\* The search failed over stores that hold records and an index.
C7_Witness ==
  /\ phase = "Failed" /\ ~exited
  /\ failedIn = "Fetching"
  /\ DOMAIN usersByDN # {}
  /\ DOMAIN indexDB # {}

Rank(ph) ==
  CASE ph = "LoadingKnown" -> 1
    [] ph = "Binding" -> 2
    [] ph = "Fetching" -> 3
    [] ph = "Processing" -> 4
    [] ph = "Deleting" -> 5
    [] ph = "Finalized" -> 6
    [] ph = "Failed" -> 6
    [] OTHER -> 0

Keys(st) ==
  [usersByDN |-> DOMAIN st.usersByDN, usersByGUID |-> DOMAIN st.usersByGUID,
   userTokensByDN |-> DOMAIN st.userTokensByDN, allDNs |-> DOMAIN st.allDNs]

\* C8: within a pass the phase only moves forward; records are written in
\* Processing alone and removed in Deleting alone; meta:lastSync is written by
\* the step into Finalized; nothing is written from Finalized or Failed on.
C8_PhaseOrder ==
  [][(SyncStep /\ ~exited) =>
       /\ phase' = phase \/ Rank(phase') > Rank(phase)
       /\ Store' # Store => phase \in {"Processing", "Deleting"}
       /\ phase = "Processing" =>
            \A n \in DOMAIN Keys(Store) : Keys(Store)[n] \subseteq Keys(Store)'[n]
       /\ phase = "Deleting" =>
            \A n \in DOMAIN Keys(Store) : Keys(Store)'[n] \subseteq Keys(Store)[n]
       /\ db' # db => (phase = "Deleting" /\ phase' = "Finalized" /\ Store' = Store)
       /\ phase \in {"Finalized", "Failed"} => (phase' = phase /\ Store' = Store)]_vars

\* A pass that wrote a record, removed another and wrote meta:lastSync.
C8_Witness ==
  /\ phase = "Finalized" /\ ~exited
  /\ upserts > 0
  /\ Removed # {}
  /\ db # db0

\* C9 as stated: when the process has ended after a pass, the directory
\* connection has been unbound and the store handle closed.
C9_AsStated ==
  (exited /\ phase \in {"Finalized", "Failed"}) =>
    (client = "unbound" /\ dbHandle = "closed")

\* C10 as stated: the successful re-run of a pass aborted in Processing or
\* Deleting leaves the five stores as the uninterrupted pass would have.
C10_AsStated ==
  (phase = "Finalized" /\ ~exited /\ repeatOf = "Failed") =>
    NoTimeStore(Store) = expected

\* The dns of the first n entries of the snapshot.
DNsUpTo(entries, n) == {EntryDN(entries[j]) : j \in 1..n} \ {NULL}

\* C11: a store error while processing entry idx ends the pass in Failed with
\* exit code 1; no later entry has been processed and no deletion has run.
C11_EntryErrorAborts ==
  (failedIn = "Processing") =>
    /\ phase = "Failed"
    /\ exitCode = 1
    /\ ~exited =>
         /\ idx <= Len(searchEntries)
         /\ upserts + entriesSkippedNoDN + entriesSkippedManual = idx - 1
         /\ seenDNs = DNsUpTo(searchEntries, idx)
         /\ deletes = 0
         /\ DOMAIN store0.usersByDN \subseteq DOMAIN usersByDN
         /\ DOMAIN store0.allDNs \subseteq DOMAIN allDNs
         /\ (DOMAIN allDNs) \ (DOMAIN store0.allDNs) \subseteq DNsUpTo(searchEntries, idx)
         /\ db = db0

\* The first of two entries failed while a known dn was due for deletion.
C11_Witness ==
  /\ phase = "Failed" /\ ~exited
  /\ failedIn = "Processing"
  /\ idx = 1 /\ Len(searchEntries) = 2
  /\ EntryDN(searchEntries[2]) # NULL
  /\ knownDNs \ DNsUpTo(searchEntries, 2) # {}
  /\ Store # store0

\* C12 as stated: after one pass over empty stores with a one-entry snapshot
\* the record at the entry's dn has the field isManual with the value false,
\* the seen set is {dn}, upserts = 1 and deletes = 0.
C12_AsStated ==
  (/\ phase = "Finalized" /\ ~exited
   /\ store0 = EmptyStore
   /\ Len(searchEntries) = 1
   /\ EntryDN(searchEntries[1]) # NULL) =>
    LET dn == EntryDN(searchEntries[1])
    IN /\ Has(usersByDN, dn)
       /\ "isManual" \in DOMAIN usersByDN[dn]
       /\ usersByDN[dn].isManual = FALSE
       /\ seenDNs = {dn}
       /\ upserts = 1
       /\ deletes = 0

\* The entries of a completed pass whose dn was known and stored, not manual,
\* with another title.
TitleChanged ==
  {j \in 1..Len(searchEntries) :
     LET dn == EntryDN(searchEntries[j])
     IN /\ dn # NULL
        /\ dn \in knownDNs
        /\ Has(store0.usersByDN, dn)
        /\ ~IsManual(store0.usersByDN[dn])
        /\ store0.usersByDN[dn].title # OrNull(searchEntries[j].title)}

\* The tokens the old title gave that the new record does not give.
OldOnly(j) ==
  ToSet(tokenize(<<store0.usersByDN[EntryDN(searchEntries[j])].title>>))
    \ ToSet(DocTokens(SyncDoc(searchEntries[j], Now)))

\* The update scenario: title, token set and index after the pass.
UpdateDone(j) ==
  LET e == searchEntries[j]
      dn == EntryDN(e)
  IN /\ Has(usersByDN, dn)
     /\ usersByDN[dn].title = OrNull(e.title)
     /\ \A t \in OldOnly(j) :
          /\ ~InSeq(t, GetOr(userTokensByDN, dn, <<>>))
          /\ ~InSeq(dn, GetOr(indexDB, t, <<>>))
          /\ Has(indexDB, t) => indexDB[t] # <<>>
     /\ \A t \in ToSet(tokenize(<<OrNull(e.title)>>)) :
          InSeq(dn, GetOr(indexDB, t, <<>>))

\* C13 as stated: whenever a known dn returns with a changed title, after the
\* pass the record has the new title, the old title's own tokens are gone from
\* the dn's token set and from the index, and the new title's are in the index.
C13_AsStated ==
  (phase = "Finalized" /\ ~exited) => \A j \in TitleChanged : UpdateDone(j)

\* The known dns with a stored non-manual record that the snapshot lacks.
Vanished ==
  {d \in knownDNs \ seenDNs :
     Has(store0.usersByDN, d) /\ ~IsManual(store0.usersByDN[d])}

\* C14 as stated: after a completed pass a vanished dn has no record, no
\* secondary entry, no token set, no place in any index entry and no key in
\* allDNs, and the pass has counted a delete for it.
C14_AsStated ==
  (phase = "Finalized" /\ ~exited) =>
    /\ \A d \in Vanished :
         /\ ~Has(usersByDN, d)
         /\ ~Falsy(store0.usersByDN[d].guid) => ~Has(usersByGUID, store0.usersByDN[d].guid)
         /\ \A g \in DOMAIN usersByGUID : usersByGUID[g].dn # d
         /\ ~Has(userTokensByDN, d)
         /\ \A t \in DOMAIN indexDB : ~InSeq(d, indexDB[t])
         /\ ~Has(allDNs, d)
    /\ deletes >= Cardinality(Vanished)

\* The entry the loop is at has its dn occupied by a manual record.
AtManual ==
  /\ phase = "Processing" /\ ~exited
  /\ EntryDN(searchEntries[idx]) # NULL
  /\ Has(usersByDN, EntryDN(searchEntries[idx]))
  /\ IsManual(usersByDN[EntryDN(searchEntries[idx])])

\* C15: an entry whose dn holds a manual record changes none of the five
\* stores; when the iteration ends it has counted one manual skip and no upsert.
C15_ManualCollision ==
  [][AtManual =>
       /\ Store' = Store
       /\ idx' # idx =>
            /\ idx' = idx + 1
            /\ entriesSkippedManual' = entriesSkippedManual + 1
            /\ upserts' = upserts
            /\ entriesSkippedNoDN' = entriesSkippedNoDN]_vars

\* A pass went past an entry at the manual record's dn, with other attributes.
C15_Witness ==
  /\ phase \in {"Processing", "Deleting"} /\ ~exited
  /\ idx = 2
  /\ EntryDN(searchEntries[1]) = "MANUAL:1"
  /\ ManualFound(usersByDN, "MANUAL:1")
  /\ usersByDN["MANUAL:1"].guid # normalizeGUID(searchEntries[1].objectGUID)
  /\ entriesSkippedManual = 1 /\ upserts = 0
  /\ Store = store0

\* The entry the loop is at has no dn.
AtNoDN ==
  /\ phase = "Processing" /\ ~exited
  /\ EntryDN(searchEntries[idx]) = NULL

\* C16: an entry with no dn is counted and skipped: no store changes, the seen
\* set and the upsert count stay, the pass does not fail and goes on with the
\* next entry, or with the deletions after the last one.
C16_NoDnSkipped ==
  [][AtNoDN =>
       /\ Store' = Store /\ db' = db
       /\ seenDNs' = seenDNs
       /\ upserts' = upserts
       /\ entriesSkippedManual' = entriesSkippedManual
       /\ entriesSkippedNoDN' = entriesSkippedNoDN + 1
       /\ idx' = idx + 1
       /\ phase' = (IF idx < Len(searchEntries) THEN "Processing" ELSE "Deleting")
       /\ failedIn' = failedIn /\ exitCode' = exitCode]_vars

\* The entry after one without a dn has been written.
C16_Witness ==
  /\ phase = "Deleting" /\ ~exited
  /\ Len(searchEntries) = 2
  /\ EntryDN(searchEntries[1]) = NULL
  /\ entriesSkippedNoDN = 1
  /\ upserts = 1
  /\ seenDNs = {EntryDN(searchEntries[2])}
  /\ Has(usersByDN, EntryDN(searchEntries[2]))

\* C17 as stated: the delete count of meta:lastSync is the number of records
\* Phase 4 removed from usersByDN, and the upsert count is the number of
\* entries written to usersByDN.
C17_AsStated ==
  (phase = "Finalized" /\ ~exited) =>
    /\ db["meta:lastSync"].deletes = Cardinality(Removed)
    /\ db["meta:lastSync"].upserts =
         Cardinality({j \in 1..Len(searchEntries) :
                        /\ EntryDN(searchEntries[j]) # NULL
                        /\ Has(usersByDN, EntryDN(searchEntries[j]))
                        /\ usersByDN[EntryDN(searchEntries[j])] = SyncDoc(searchEntries[j], Now)})

\* A run of the sync process that finds the LDAP configuration missing.
NoConfigRun == SyncStep /\ exited /\ phase' \in {"ConfigMissing", "Skipped"}

\* C18 as stated: a run without the LDAP configuration writes no store and no
\* meta:lastSync, and ends with a non-zero exit code.
C18_AsStated ==
  [][NoConfigRun => (Store' = Store /\ db' = db /\ exited' /\ exitCode' # 0)]_vars

\* C18: a run without the LDAP configuration writes no store and no
\* meta:lastSync; it ends with exit code 1, or in test mode with exit code 0
\* and the store handle closed.
C18_ConfigMissing ==
  [][NoConfigRun =>
       /\ Store' = Store /\ db' = db /\ exited'
       /\ phase' = "ConfigMissing" => exitCode' = 1
       /\ phase' = "Skipped" => (exitCode' = 0 /\ dbHandle' = "closed")]_vars

\* The configuration went missing over stores that hold records and a
\* meta:lastSync.
C18_Witness ==
  /\ phase = "ConfigMissing" /\ exited
  /\ exitCode = 1
  /\ adminOps = 0
  /\ DOMAIN usersByDN # {}
  /\ Has(db, "meta:lastSync")

(***************************************************************************)
(* Two index updates at once.  updateIndexForUser awaits every store       *)
(* operation, so another process working on the same stores (a second sync *)
(* run) can act between any two of them.  Each await is one step.          *)
(***************************************************************************)
Workers == {1, 2}
WorkerDN == <<DN_A, DN_B>>
TokenLists == {<<"ab">>, <<"ab", "cd">>, <<"jo">>}

\* The stores before the two updates: what earlier updates left.
RaceStores ==
  LET one == ApplyAll(EmptyStore, updateIndexForUser(EmptyStore, DN_A, <<"cd">>))
      two == ApplyAll(one, updateIndexForUser(one, DN_B, <<"cd", "jo">>))
  IN {EmptyStore, one, two}

Worker(dn, tokens) ==
  [pc |-> "start", dn |-> dn, newTokens |-> tokens, prevTokens |-> <<>>,
   toAdd |-> <<>>, toRemove |-> <<>>, i |-> 0, current |-> <<>>]

RaceInit ==
  /\ \E st \in RaceStores :
       /\ usersByDN = st.usersByDN
       /\ usersByGUID = st.usersByGUID
       /\ indexDB = st.indexDB
       /\ userTokensByDN = st.userTokensByDN
       /\ allDNs = st.allDNs
  /\ \E t1 \in TokenLists, t2 \in TokenLists :
       workers = <<Worker(WorkerDN[1], t1), Worker(WorkerDN[2], t2)>>
  /\ call = NoCall
  /\ req = NoRequest
  /\ db = EmptyMap
  /\ directory = <<>>
  /\ clock = 0
  /\ issued = {}
  /\ phase = "Processing"
  /\ exited = FALSE
  /\ exitCode = 0
  /\ client = "bound"
  /\ dbHandle = "open"
  /\ knownDNs = {}
  /\ seenDNs = {}
  /\ searchEntries = <<>>
  /\ idx = 0
  /\ upserts = 0
  /\ deletes = 0
  /\ entriesSkippedNoDN = 0
  /\ entriesSkippedManual = 0
  /\ failedIn = NULL
  /\ store0 = EmptyStore
  /\ db0 = EmptyMap
  /\ repeatOf = "none"
  /\ expected = EmptyStore
  /\ reply = 0
  /\ failures = 0
  /\ adminOps = 0

\* What the two updates leave alone.
RaceFrame ==
  UNCHANGED <<usersByDN, usersByGUID, allDNs, db, envVars, passVars, histVars,
              reply, failures, adminOps, call, req>>

\* Where updateIndexForUser stands when its add loop is at position k.
AddLoop(w, k) ==
  IF k <= Len(w.toAdd) THEN [w EXCEPT !.pc = "addGet", !.i = k]
  ELSE IF Len(w.toRemove) > 0 THEN [w EXCEPT !.pc = "removeGet", !.i = 1]
  ELSE [w EXCEPT !.pc = "putTokens"]

\* Where it stands when its remove loop is at position k.
RemoveLoop(w, k) ==
  IF k <= Len(w.toRemove) THEN [w EXCEPT !.pc = "removeGet", !.i = k]
  ELSE [w EXCEPT !.pc = "putTokens"]

\* const prevTokens = (await userTokensByDN.get(dn)) || []
ReadPrevTokens(n) ==
  /\ workers[n].pc = "start"
  /\ LET w == workers[n]
         prev == GetOr(userTokensByDN, w.dn, <<>>)
         prevSet == Dedup(prev)
         newSet == Dedup(w.newTokens)
         w1 == [w EXCEPT !.prevTokens = prevSet,
                         !.toAdd = SelectSeq(newSet, LAMBDA t : ~InSeq(t, prevSet)),
                         !.toRemove = SelectSeq(prevSet, LAMBDA t : ~InSeq(t, newSet))]
     IN workers' = [workers EXCEPT ![n] = AddLoop(w1, 1)]
  /\ UNCHANGED <<indexDB, userTokensByDN>>
  /\ RaceFrame

\* addDNToToken: const current = (await indexDB.get(token)) || []
AddGet(n) ==
  /\ workers[n].pc = "addGet"
  /\ LET w == workers[n]
     IN workers' = [workers EXCEPT ![n] =
                      [w EXCEPT !.pc = "addPut",
                                !.current = GetOr(indexDB, w.toAdd[w.i], <<>>)]]
  /\ UNCHANGED <<indexDB, userTokensByDN>>
  /\ RaceFrame

\* addDNToToken storing the array it read, without the push.
AddPut_NoPush(n) ==
  /\ workers[n].pc = "addPut"
  /\ LET w == workers[n]
     IN /\ indexDB' = IF InSeq(w.dn, w.current) THEN indexDB
                      ELSE Put(indexDB, w.toAdd[w.i], w.current)
        /\ workers' = [workers EXCEPT ![n] = AddLoop([w EXCEPT !.current = <<>>], w.i + 1)]
  /\ UNCHANGED userTokensByDN
  /\ RaceFrame

\* addDNToToken: if (!current.includes(dn)) { current.push(dn); await indexDB.put(token, current) }
AddPut(n) ==
  /\ workers[n].pc = "addPut"
  /\ LET w == workers[n]
     IN /\ indexDB' = IF InSeq(w.dn, w.current) THEN indexDB
                      ELSE Put(indexDB, w.toAdd[w.i], Append(w.current, w.dn))
        /\ workers' = [workers EXCEPT ![n] = AddLoop([w EXCEPT !.current = <<>>], w.i + 1)]
  /\ UNCHANGED userTokensByDN
  /\ RaceFrame

\* removeDNFromToken: const current = (await indexDB.get(token)) || []
RemoveGet(n) ==
  /\ workers[n].pc = "removeGet"
  /\ LET w == workers[n]
     IN workers' = [workers EXCEPT ![n] =
                      [w EXCEPT !.pc = "removePut",
                                !.current = GetOr(indexDB, w.toRemove[w.i], <<>>)]]
  /\ UNCHANGED <<indexDB, userTokensByDN>>
  /\ RaceFrame

\* removeDNFromToken: remove the key, or put the filtered array
RemovePut(n) ==
  /\ workers[n].pc = "removePut"
  /\ LET w == workers[n]
         next == SelectSeq(w.current, LAMBDA x : x # w.dn)
     IN /\ indexDB' = IF Len(next) = 0 THEN Remove(indexDB, w.toRemove[w.i])
                      ELSE IF Len(next) # Len(w.current)
                           THEN Put(indexDB, w.toRemove[w.i], next)
                      ELSE indexDB
        /\ workers' = [workers EXCEPT ![n] = RemoveLoop([w EXCEPT !.current = <<>>], w.i + 1)]
  /\ UNCHANGED userTokensByDN
  /\ RaceFrame

\* await userTokensByDN.put(dn, [...newSet])
PutTokens(n) ==
  /\ workers[n].pc = "putTokens"
  /\ userTokensByDN' = Put(userTokensByDN, workers[n].dn, Dedup(workers[n].newTokens))
  /\ workers' = [workers EXCEPT ![n] = [@ EXCEPT !.pc = "done"]]
  /\ UNCHANGED indexDB
  /\ RaceFrame

RaceNext ==
  \/ \E n \in Workers : ReadPrevTokens(n)
  \/ \E n \in Workers : AddGet(n)
  \/ \E n \in Workers : AddPut(n)
  \/ \E n \in Workers : RemoveGet(n)
  \/ \E n \in Workers : RemovePut(n)
  \/ \E n \in Workers : PutTokens(n)

SpecRace == RaceInit /\ [][RaceNext]_vars

Other(n) == 3 - n

\* The dn of update n has token t in its token set and is not in t's index entry.
Lost(n, t) ==
  /\ InSeq(t, GetOr(userTokensByDN, workers[n].dn, <<>>))
  /\ ~InSeq(workers[n].dn, GetOr(indexDB, t, <<>>))

\* Update n reads or writes the index entry of t.
Touches(n, t) == InSeq(t, workers[n].toAdd) \/ InSeq(t, workers[n].toRemove)

RaceTokens == {"ab", "cd", "jo"}

\* C19: the get and the put of an index entry are two steps, and an addition
\* can be lost between them.  An update that ends before the other begins
\* loses nothing; when both have ended, a dn missing from the entry of one of
\* its tokens is missing from an entry the other update worked on too.
C19_LostUpdate ==
  /\ \A n \in Workers :
       (workers[n].pc = "done" /\ workers[Other(n)].pc = "start") =>
         \A t \in RaceTokens : ~Lost(n, t)
  /\ (\A n \in Workers : workers[n].pc = "done") =>
       /\ \A n \in Workers :
            userTokensByDN[workers[n].dn] = Dedup(workers[n].newTokens)
       /\ \A n \in Workers, t \in RaceTokens :
            Lost(n, t) => (Touches(n, t) /\ Touches(Other(n), t))

\* Both records were given a token neither had; both updates have ended; one
\* dn is in the token's index entry and the other is not.
C19_Witness ==
  /\ \A n \in Workers : workers[n].pc = "done"
  /\ \E t \in RaceTokens, n \in Workers :
       /\ InSeq(t, workers[1].toAdd) /\ InSeq(t, workers[2].toAdd)
       /\ Lost(n, t)
       /\ ~Lost(Other(n), t)

(***************************************************************************)
(* tokenize on its own: a call with up to MaxValues values, each a text, *)
(* null or the empty string.                                               *)
(***************************************************************************)
TokenizeValues == Texts \cup {NULL, ""}
TokenizeArgs == UNION {[1..n -> TokenizeValues] : n \in 0..MaxValues}

TokenizeInit ==
  /\ \E args \in TokenizeArgs :
       call = [fn |-> "tokenize", args |-> args, result |-> <<>>, returned |-> FALSE]
  /\ workers = NoWorkers
  /\ req = NoRequest
  /\ usersByDN = EmptyMap
  /\ usersByGUID = EmptyMap
  /\ indexDB = EmptyMap
  /\ userTokensByDN = EmptyMap
  /\ allDNs = EmptyMap
  /\ db = EmptyMap
  /\ directory = <<>>
  /\ clock = 0
  /\ issued = {}
  /\ phase = "NotStarted"
  /\ exited = TRUE
  /\ exitCode = 0
  /\ client = "none"
  /\ dbHandle = "closed"
  /\ knownDNs = {}
  /\ seenDNs = {}
  /\ searchEntries = <<>>
  /\ idx = 0
  /\ upserts = 0
  /\ deletes = 0
  /\ entriesSkippedNoDN = 0
  /\ entriesSkippedManual = 0
  /\ failedIn = NULL
  /\ store0 = EmptyStore
  /\ db0 = EmptyMap
  /\ repeatOf = "none"
  /\ expected = EmptyStore
  /\ reply = 0
  /\ failures = 0
  /\ adminOps = 0

\* return [...out]
Tokenize ==
  /\ call.fn = "tokenize" /\ ~call.returned
  /\ call' = [call EXCEPT !.result = tokenize(call.args), !.returned = TRUE]
  /\ UNCHANGED <<storeVars, db, envVars, passVars, histVars, reply, failures,
                 adminOps, workers, req>>

\* The same call made again.
TokenizeAgain ==
  /\ call.fn = "tokenize" /\ call.returned
  /\ call' = [call EXCEPT !.result = tokenize(call.args), !.fn = "tokenize again"]
  /\ UNCHANGED <<storeVars, db, envVars, passVars, histVars, reply, failures,
                 adminOps, workers, req>>

TokenizeNext == Tokenize \/ TokenizeAgain

SpecTokenize == TokenizeInit /\ [][TokenizeNext]_vars

\* Letters that are not a to z.
OtherLetters == {"ë"}

\* cs[i..j] is a maximal run of characters of the class.
IsRun(cs, i, j, class) ==
  /\ \A k \in i..j : cs[k] \in class
  /\ i = 1 \/ cs[i - 1] \notin class
  /\ j = Len(cs) \/ cs[j + 1] \notin class

\* The maximal runs of two or more characters of the class in the lower-cased
\* text values.
Runs(values, class) ==
  UNION {LET cs == toLowerCase(Chars[values[n]])
         IN {SubSeq(cs, i, j) : <<i, j>> \in
               {r \in (1..Len(cs)) \X (1..Len(cs)) :
                  r[1] < r[2] /\ IsRun(cs, r[1], r[2], class)}}
         : n \in {m \in 1..Len(values) : values[m] \in Texts}}

\* The result of the call is duplicate-free and holds exactly the maximal
\* runs of the class, all in lower case.
ResultIsRuns(class) ==
  /\ Cardinality(ToSet(call.result)) = Len(call.result)
  /\ ToSet(call.result) = {JoinChars(r) : r \in Runs(call.args, class)}
  /\ \A r \in Runs(call.args, class) : \A k \in 1..Len(r) : ~InSeq(r[k], Upper)

\* C20 as stated: the result is duplicate-free and holds exactly the
\* lower-cased maximal runs of letters, digits, @ . + - of two or more
\* characters of the non-null values; the same call again gives the same.
C20_AsStated ==
  [][call'.returned =>
       /\ ResultIsRuns(TokenChars \cup OtherLetters)'
       /\ call.returned => call'.result = call.result]_vars

\* C20: the same with the letters a to z only; any other character, a letter
\* outside a to z included, ends a run.
C20_Tokenize ==
  [][call'.returned =>
       /\ ResultIsRuns(TokenChars)'
       /\ call.returned => call'.result = call.result]_vars

\* A call with upper-case text, a one-character run and a letter outside
\* a to z.
C20_Witness ==
  /\ call.returned
  /\ call.args = <<"Zoë B", "A+B 9x">>
  /\ call.result = <<"zo", "a+b", "9x">>

\* The call of the example.
ExampleCall == call.returned /\ call.args = <<"Jane Doe", "jane.doe@x.com">>

\* C21 as stated: the tokens of "Jane Doe" and "jane.doe@x.com" include
\* "jane", "doe", "jane.doe" and "com", and none of one character.
C21_AsStated ==
  ExampleCall =>
    /\ {"jane", "doe", "jane.doe", "com"} \subseteq ToSet(call.result)
    /\ ToSet(call.result) \cap TokenChars = {}

\* C21: the tokens of "Jane Doe" and "jane.doe@x.com" are "jane", "doe" and
\* the whole address "jane.doe@x.com", which @ and . do not split.
C21_Example ==
  ExampleCall =>
    /\ call.result = <<"jane", "doe", "jane.doe@x.com">>
    /\ ToSet(call.result) \cap TokenChars = {}

\* The example has been tokenized.
C21_Witness ==
  /\ ExampleCall
  /\ Len(call.result) = 3
  /\ "jane.doe" \notin ToSet(call.result)

(***************************************************************************)
(* The client's requestWithAuth: one call, followed await by await.  The   *)
(* server answers each fetch with any status or not at all (the abort      *)
(* timer then rejects the fetch), and each body read settles either way.   *)
(***************************************************************************)
Statuses == {200, 201, 401, 403, 500}
Methods == {"GET", "POST"}
\* A parsed response body; is401 is its field _401, which requestWithAuth reads.
Bodies == {[is401 |-> FALSE], [is401 |-> TRUE]}

\* res.ok
ResOk(status) == status \in 200..299

\* doLogout: clearToken and app.auth = false
doLogout(r) == [r EXCEPT !.token = NULL, !.refreshToken = NULL, !.auth = FALSE]

\* saveTokens: each token is stored only when it is truthy
saveTokens(r, accessToken, refreshToken) ==
  [r EXCEPT !.token = IF Falsy(accessToken) THEN @ ELSE accessToken,
            !.refreshToken = IF Falsy(refreshToken) THEN @ ELSE refreshToken]

\* throw e out of requestWithAuth
Throw(r, e) == [r EXCEPT !.pc = "done", !.outcome = "thrown", !.result = e]

\* return result
Return(r, v) == [r EXCEPT !.pc = "done", !.outcome = "returned", !.result = v]

\* let token = getToken(); let result = await doOne(token || '')
RequestInit ==
  /\ \E t \in {NULL, "access0"}, rt \in {NULL, "refresh0"}, m \in Methods :
       req = [pc |-> "doOne", attempt |-> 1, method |-> m,
              token |-> t, refreshToken |-> rt, auth |-> TRUE,
              bearer |-> IF Falsy(t) THEN "" ELSE t,
              sent |-> 0, refreshes |-> 0, status |-> 0, refreshed |-> "no",
              outcome |-> "pending", result |-> NULL]
  /\ call = NoCall
  /\ workers = NoWorkers
  /\ usersByDN = EmptyMap
  /\ usersByGUID = EmptyMap
  /\ indexDB = EmptyMap
  /\ userTokensByDN = EmptyMap
  /\ allDNs = EmptyMap
  /\ db = EmptyMap
  /\ directory = <<>>
  /\ clock = 0
  /\ issued = {}
  /\ phase = "NotStarted"
  /\ exited = TRUE
  /\ exitCode = 0
  /\ client = "none"
  /\ dbHandle = "closed"
  /\ knownDNs = {}
  /\ seenDNs = {}
  /\ searchEntries = <<>>
  /\ idx = 0
  /\ upserts = 0
  /\ deletes = 0
  /\ entriesSkippedNoDN = 0
  /\ entriesSkippedManual = 0
  /\ failedIn = NULL
  /\ store0 = EmptyStore
  /\ db0 = EmptyMap
  /\ repeatOf = "none"
  /\ expected = EmptyStore
  /\ reply = 0
  /\ failures = 0
  /\ adminOps = 0

\* What a request leaves alone.
RequestFrame ==
  UNCHANGED <<storeVars, db, envVars, passVars, histVars, reply, failures,
              adminOps, workers, call>>

\* if (result && result._401) after every doOne: the refresh is tried
\* however often doOne reports a 401.
Unauthorized_Again(r) ==
  IF Falsy(r.refreshToken) THEN Throw(doLogout(r), "Unauthorized")
  ELSE [r EXCEPT !.pc = "refresh"]

\* if (result && result._401) after the first doOne: without a refresh token
\* log out and throw, else go on to the refresh; the result of the second
\* doOne is returned as it is.
Unauthorized(r) ==
  IF r.attempt = 1
  THEN IF Falsy(r.refreshToken) THEN Throw(doLogout(r), "Unauthorized")
       ELSE [r EXCEPT !.pc = "refresh"]
  ELSE Return(r, "_401")

\* doOne up to its fetch: the request is sent; the fetch rejects (network
\* error or abort), or a response arrives: 401 gives { _401: true }, another
\* status that is not ok leads to res.text(), an ok one to the body.
FetchOne ==
  /\ req.pc = "doOne"
  /\ LET r == [req EXCEPT !.sent = @ + 1] IN
       \/ req' = Throw([r EXCEPT !.status = 0], "fetch failed")
       \/ \E status \in Statuses :
            LET s == [r EXCEPT !.status = status] IN
              req' = IF status = 401 THEN Unauthorized(s)
                     ELSE IF ~ResOk(status) THEN [s EXCEPT !.pc = "text"]
                     ELSE [s EXCEPT !.pc = "body"]
  /\ RequestFrame

\* const text = await res.text(); throw new Error(text || ...)
ErrorText ==
  /\ req.pc = "text"
  /\ \/ req' = Throw(req, "Request failed")
     \/ req' = Throw(req, "read failed")
  /\ RequestFrame

\* return res.json() / return res.text(): the body is read, or the read
\* rejects; a body with a truthy _401 is taken for a 401.
ResponseBody ==
  /\ req.pc = "body"
  /\ \/ req' = Throw(req, "read failed")
     \/ \E body \in Bodies :
          req' = IF body.is401 THEN Unauthorized(req) ELSE Return(req, "body")
  /\ RequestFrame

\* refreshRes = await fetch(app.root + '/refresh', ...): a rejected fetch and
\* a response that is not ok log out and throw.
RefreshFetch ==
  /\ req.pc = "refresh"
  /\ LET r == [req EXCEPT !.refreshes = @ + 1] IN
       \/ req' = Throw(doLogout([r EXCEPT !.refreshed = "failed"]), "fetch failed")
       \/ req' = Throw(doLogout([r EXCEPT !.refreshed = "failed"]), "Session expired")
       \/ req' = [r EXCEPT !.pc = "refreshJson"]
  /\ RequestFrame

\* const data = await refreshRes.json(): unreadable data throws, data.error
\* logs out and throws, else the tokens are saved and doOne runs again with
\* data.accessToken.
RefreshJson ==
  /\ req.pc = "refreshJson"
  /\ \/ req' = Throw([req EXCEPT !.refreshed = "failed"], "read failed")
     \/ req' = Throw(doLogout([req EXCEPT !.refreshed = "failed"]), "data.error")
     \/ \E accessToken \in {NULL, "access1"}, refreshToken \in {NULL, "refresh1"} :
          req' = [saveTokens(req, accessToken, refreshToken) EXCEPT
                    !.pc = "doOne", !.attempt = 2, !.refreshed = "ok",
                    !.bearer = accessToken]
  /\ RequestFrame

RequestNext == FetchOne \/ ErrorText \/ ResponseBody \/ RefreshFetch \/ RefreshJson

\* Every await of requestWithAuth settles: a fetch by its response or its
\* abort timer, a body read by its end or its failure.
SpecRequest == RequestInit /\ [][RequestNext]_vars /\ WF_vars(RequestNext)

Settled == req.outcome # "pending"

C23_AsStated ==
  Settled =>
    /\ (req.status # 0 /\ ~ResOk(req.status)) => req.outcome = "thrown"
    /\ req.refreshed = "failed" => req.outcome = "thrown"
    /\ req.outcome = "returned" => ResOk(req.status)

(***************************************************************************)
(* GET /users: the list a caller gets from a store.  The same request is   *)
(* served from two stores that differ in one record's upn at most.         *)
(***************************************************************************)
DN_C == "CN=C,OU=Sales,OU=Delft"

\* usersByDN.getRange({}) yields the records in key order.
ListOrder == <<DN_A, DN_C, "MANUAL:1">>

\* dn.split(","), each part as its type and its value.
DnParts ==
  [d \in {DN_A, DN_C, "MANUAL:1"} |->
     CASE d = DN_A -> <<[type |-> "CN", value |-> "A"], [type |-> "OU", value |-> "X"]>>
       [] d = DN_C -> <<[type |-> "CN", value |-> "C"], [type |-> "OU", value |-> "Sales"],
                        [type |-> "OU", value |-> "Delft"]>>
       [] OTHER -> <<[type |-> "", value |-> d]>>]

\* String.prototype.trim
Trim(s) ==
  CASE s = " " -> ""
    [] s = " Jo" -> "Jo"
    [] OTHER -> s

\* hashDn: the SHA-256 of the dn, "" for no dn.
hashDn(dn) == IF Falsy(dn) THEN "" ELSE "sha256:" \o dn

\* extractManualIdFromDn
extractManualIdFromDn(dn) == CHOOSE id \in ManualIds \cup {NULL} :
  IF \E i \in ManualIds : dn = buildManualDn(i) THEN id # NULL /\ dn = buildManualDn(id)
  ELSE id = NULL

\* A stored record as the pass or the admin route writes it.
UserDoc(dn, firstName, email, upn) ==
  [dn |-> dn, guid |-> NULL, upn |-> upn, email |-> email,
   displayName |-> "Jo X", firstName |-> firstName, lastName |-> "X",
   title |-> "ab cd", department |-> NULL, office |-> NULL,
   phones |-> [business |-> "555", mobile |-> NULL, ipPhone |-> "9"],
   managerDN |-> DN_A]

FirstNames == {"Jo", " Jo", " ", NULL}
Emails == {"j@x.io", "", NULL}
UPNs == {"jo@corp", "ann@corp", NULL}

UserDocs(dn) ==
  {UserDoc(dn, f, e, u) : f \in FirstNames, e \in Emails, u \in UPNs}
    \cup {[UserDoc(dn, f, e, NULL) EXCEPT !.isManual = TRUE] : f \in {"Jo"}, e \in Emails}

\* Stores of up to MaxEntries records.
UserStores ==
  UNION {{st \in [D -> UNION {UserDocs(d) : d \in D}] : \A d \in D : st[d].dn = d} :
           D \in {D \in SUBSET {DN_A, DN_C, "MANUAL:1"} : Cardinality(D) <= MaxEntries}}

\* toDisplayString of a string or null
toDisplayString(v) == IF v = NULL THEN "" ELSE Trim(v)

\* extractLocationOU: the last OU but one
extractLocationOU(dn) ==
  IF Falsy(dn) THEN ""
  ELSE LET ous == SelectSeq(DnParts[dn], LAMBDA part : part.type = "OU")
       IN IF Len(ous) >= 2 THEN ous[Len(ous) - 1].value ELSE ""

\* shouldIncludeInPublicList: records without a first name are left out
shouldIncludeInPublicList(user) ==
  /\ Has(user, "firstName")
  /\ user.firstName # NULL
  /\ Trim(user.firstName) # ""

PUBLIC_FIELDS ==
  {"dn", "firstName", "lastName", "displayName", "title", "department", "office",
   "phones", "email", "upn", "userPrincipalName"}

\* toPublicUser: the public fields, phones cut down to business and mobile
toPublicUser(user) ==
  [k \in PUBLIC_FIELDS \cap DOMAIN user |->
     IF k = "phones"
     THEN [business |-> user.phones.business, mobile |-> user.phones.mobile]
     ELSE user[k]]

\* The e-mail address shown: email, else upn, else userPrincipalName.
DisplayEmail(user) ==
  IF Has(user, "email") /\ ~Falsy(user.email) THEN user.email
  ELSE IF Has(user, "upn") /\ ~Falsy(user.upn) THEN user.upn
  ELSE IF Has(user, "userPrincipalName") /\ ~Falsy(user.userPrincipalName)
       THEN user.userPrincipalName
  ELSE ""

\* addListRowDisplayFields: { ...user, fullName, location, phone, mobile, email }
addListRowDisplayFields(user) ==
  LET first == toDisplayString(GetOr(user, "firstName", NULL))
      last == toDisplayString(GetOr(user, "lastName", NULL))
      combined == IF first = "" THEN last
                  ELSE IF last = "" THEN first
                  ELSE first \o " " \o last
      fullName == IF combined # "" THEN combined
                  ELSE toDisplayString(GetOr(user, "displayName", NULL))
      phoneOf(kind) ==
        IF Has(user, "phones") /\ user.phones[kind] # NULL THEN user.phones[kind] ELSE ""
  IN [k \in DOMAIN user \cup {"fullName", "location", "phone", "mobile", "email"} |->
        CASE k = "fullName" -> fullName
          [] k = "location" -> extractLocationOU(GetOr(user, "dn", NULL))
          [] k = "phone" -> phoneOf("business")
          [] k = "mobile" -> phoneOf("mobile")
          [] k = "email" -> DisplayEmail(user)
          [] OTHER -> user[k]]

MINIMAL_PUBLIC_KEYS ==
  {"fullName", "location", "phone", "mobile", "email", "title", "department", "office"}

\* toMinimalPublicRow: the opaque id and the minimal keys the row has
toMinimalPublicRow(row) ==
  [k \in {"id"} \cup (MINIMAL_PUBLIC_KEYS \cap DOMAIN row) |->
     IF k = "id" THEN hashDn(GetOr(row, "dn", NULL)) ELSE row[k]]

\* The row an admin gets: the whole record, id, manualId, display fields.
AdminRow(value) ==
  LET row == [k \in DOMAIN value \cup {"id"} \cup
                    (IF IsManual(value) THEN {"manualId"} ELSE {}) |->
                CASE k = "id" -> hashDn(value.dn)
                  [] k = "manualId" -> extractManualIdFromDn(value.dn)
                  [] OTHER -> value[k]]
  IN addListRowDisplayFields(row)

\* The row any other caller gets.
PublicRow(value) == toMinimalPublicRow(addListRowDisplayFields(toPublicUser(value)))

\* GET /users: one row per record in key order; without an admin token the
\* records without a first name are left out.
GetUsers(byDN, isAdmin) ==
  LET listed == SelectSeq(ListOrder, LAMBDA d :
                  Has(byDN, d) /\ (isAdmin \/ shouldIncludeInPublicList(byDN[d])))
  IN [i \in 1..Len(listed) |->
        IF isAdmin THEN AdminRow(byDN[listed[i]]) ELSE PublicRow(byDN[listed[i]])]

\* A store that differs from st in the upn of one record at most.
UpnVariants(st) ==
  {st} \cup {[st EXCEPT ![d].upn = u] : d \in DOMAIN st, u \in UPNs}

UsersInit ==
  /\ \E st \in UserStores : \E variant \in UpnVariants(st), isAdmin \in BOOLEAN :
       call = [fn |-> "GET /users", args |-> <<isAdmin, st, variant>>,
               result |-> <<>>, returned |-> FALSE]
  /\ req = NoRequest
  /\ workers = NoWorkers
  /\ usersByDN = EmptyMap
  /\ usersByGUID = EmptyMap
  /\ indexDB = EmptyMap
  /\ userTokensByDN = EmptyMap
  /\ allDNs = EmptyMap
  /\ db = EmptyMap
  /\ directory = <<>>
  /\ clock = 0
  /\ issued = {}
  /\ phase = "NotStarted"
  /\ exited = TRUE
  /\ exitCode = 0
  /\ client = "none"
  /\ dbHandle = "closed"
  /\ knownDNs = {}
  /\ seenDNs = {}
  /\ searchEntries = <<>>
  /\ idx = 0
  /\ upserts = 0
  /\ deletes = 0
  /\ entriesSkippedNoDN = 0
  /\ entriesSkippedManual = 0
  /\ failedIn = NULL
  /\ store0 = EmptyStore
  /\ db0 = EmptyMap
  /\ repeatOf = "none"
  /\ expected = EmptyStore
  /\ reply = 0
  /\ failures = 0
  /\ adminOps = 0

\* The request served from the store and from its variant.
ServeUsers ==
  /\ call.fn = "GET /users" /\ ~call.returned
  /\ call' = [call EXCEPT
                !.result = <<GetUsers(call.args[2], call.args[1]),
                             GetUsers(call.args[3], call.args[1])>>,
                !.returned = TRUE]
  /\ UNCHANGED <<storeVars, db, envVars, passVars, histVars, reply, failures,
                 adminOps, workers, req>>

UsersNext == ServeUsers

SpecUsers == UsersInit /\ [][UsersNext]_vars

\* A list served to a caller without an admin token.
PublicList == call.fn = "GET /users" /\ call.returned /\ ~call.args[1]

\* The upn values of the records of a store.
UpnValues(st) == {st[d].upn : d \in DOMAIN st} \ {NULL}

\* C24 as the spec states it: a list served without an admin token has rows
\* with no key but id and the eight minimal keys, holds no record's dn or upn
\* as a value, and is the same for two stores that differ only in a upn.
C24_AsStated ==
  PublicList =>
    /\ \A i \in 1..Len(call.result[1]) :
         LET row == call.result[1][i] IN
           /\ DOMAIN row \subseteq {"id"} \cup MINIMAL_PUBLIC_KEYS
           /\ \A k \in DOMAIN row :
                row[k] \notin DOMAIN call.args[2] \cup UpnValues(call.args[2])
    /\ call.result[1] = call.result[2]

\* C25 as the spec states it: at the end of every successful pass, whatever
\* passes were aborted before it, every dn in an index entry has a record in
\* the primary store and a stored token set that holds the entry's token.
C25_AsStated ==
  (phase = "Finalized" /\ ~exited) =>
    \A t \in DOMAIN indexDB : \A d \in ToSet(indexDB[t]) :
      /\ Has(usersByDN, d)
      /\ Has(userTokensByDN, d)
      /\ InSeq(t, userTokensByDN[d])

\* The step of Phase 3 in which updateIndexForUser(UpdatedDN, NewTokens) ran
\* to its end.
UpdatedDN == EntryDN(searchEntries[idx])
NewTokens == DocTokens(SyncDoc(searchEntries[idx], Now))
PrevTokens == GetOr(userTokensByDN, UpdatedDN, <<>>)
IndexUpdated ==
  /\ phase = "Processing" /\ ~exited
  /\ idx' = idx + 1
  /\ UpdatedDN # NULL
  /\ ~SkipManual(Store, UpdatedDN)

\* The tokens in one of the previous and the new token set but not in both.
SymDiff ==
  (ToSet(PrevTokens) \ ToSet(NewTokens)) \cup (ToSet(NewTokens) \ ToSet(PrevTokens))

Without(dns, dn) == SelectSeq(dns, LAMBDA x : x # dn)

\* C26: updateIndexForUser(dn, newTokens) leaves every other dn's token set as
\* it was, leaves every other dn where it was in every index entry, writes
\* and changes no index entry of a token outside the symmetric difference of
\* the previous and the new token set, and leaves newTokens as dn's stored
\* token set, also when that is the previous set.
C26_UpdateFrame ==
  [][IndexUpdated =>
       /\ \A d \in (DOMAIN userTokensByDN \cup DOMAIN userTokensByDN') \ {UpdatedDN} :
            /\ Has(userTokensByDN, d) /\ Has(userTokensByDN', d)
            /\ userTokensByDN'[d] = userTokensByDN[d]
       /\ \A t \in DOMAIN indexDB \cup DOMAIN indexDB' :
            Without(GetOr(indexDB', t, <<>>), UpdatedDN)
              = Without(GetOr(indexDB, t, <<>>), UpdatedDN)
       /\ \A t \in (DOMAIN indexDB \cup DOMAIN indexDB') \ SymDiff :
            /\ Has(indexDB, t) /\ Has(indexDB', t)
            /\ indexDB'[t] = indexDB[t]
       /\ LET ops == updateIndexForUser(Store, UpdatedDN, NewTokens) IN
            \A i \in 1..Len(ops) :
              ops[i].op \in {"addDNToToken", "removeDNFromToken"} => ops[i].key \in SymDiff
       /\ Has(userTokensByDN', UpdatedDN)
       /\ userTokensByDN'[UpdatedDN] = NewTokens]_vars

\* A pass has updated the index for CN=A,OU=X, whose title lost the token cd,
\* while CN=B,OU=X keeps cd: the entry of cd has lost one dn and kept the other.
C26_Witness ==
  /\ ~exited /\ failures = 0
  /\ Has(store0.userTokensByDN, DN_A) /\ Has(userTokensByDN, DN_A)
  /\ InSeq("cd", store0.userTokensByDN[DN_A])
  /\ ~InSeq("cd", userTokensByDN[DN_A])
  /\ InSeq(DN_A, GetOr(store0.indexDB, "cd", <<>>))
  /\ GetOr(indexDB, "cd", <<>>) = <<DN_B>>
  /\ Has(userTokensByDN, DN_B) /\ InSeq("cd", userTokensByDN[DN_B])

NoDuplicate(s) == \A i, j \in 1..Len(s) : i # j => s[i] # s[j]

\* C27: in every state of the sync process and the admin routes, also after
\* repeated passes and after an aborted pass that is run again, no index
\* entry holds the same dn twice.
C27_NoDuplicateDN == \A t \in DOMAIN indexDB : NoDuplicate(indexDB[t])

\* A pass that started with CN=A,OU=X already in the entry of jo but without
\* a token set (the pass before was aborted inside the index update) has run
\* the update again: the entry still holds the dn once.
C27_Witness ==
  /\ phase = "Finalized" /\ ~exited
  /\ GetOr(store0.indexDB, "jo", <<>>) = <<DN_A>>
  /\ ~Has(store0.userTokensByDN, DN_A)
  /\ Has(userTokensByDN, DN_A) /\ InSeq("jo", userTokensByDN[DN_A])
  /\ GetOr(indexDB, "jo", <<>>) = <<DN_A>>

\* The dns of the records of the primary store that are not manual.
NonManualDNs == {d \in DOMAIN usersByDN : ~IsManual(usersByDN[d])}

\* C28: after any sequence of completed passes and admin requests from the
\* empty store, allDNs holds exactly the dns of the non-manual records of
\* usersByDN, userTokensByDN has the same keys, and no manual record's dn is
\* a key of either.
C28_KnownExact ==
  (failures = 0 /\ phase \notin {"Processing", "Deleting"}) =>
    /\ DOMAIN allDNs = NonManualDNs
    /\ DOMAIN userTokensByDN = DOMAIN allDNs
    /\ \A d \in DOMAIN usersByDN :
         IsManual(usersByDN[d]) => d \notin DOMAIN allDNs \cup DOMAIN userTokensByDN

\* A completed pass whose snapshot held CN=A,OU=X and the dn of a manual
\* record: the first is known, the manual record's dn is not.
C28_Witness ==
  /\ failures = 0 /\ phase = "Finalized" /\ ~exited
  /\ ManualFound(usersByDN, "MANUAL:1")
  /\ "MANUAL:1" \in seenDNs
  /\ Has(allDNs, DN_A) /\ Has(userTokensByDN, DN_A)
  /\ ~Has(allDNs, "MANUAL:1")

\* C29 as the spec states it: a successful pass removes every non-manual
\* record that the primary store held when the pass started and whose dn the
\* pass's snapshot lacks, whatever passes were aborted before it.
C29_AsStated ==
  (phase = "Finalized" /\ ~exited) =>
    \A d \in DOMAIN store0.usersByDN :
      (~IsManual(store0.usersByDN[d]) /\ d \notin SnapshotDNs(directory))
        => ~Has(usersByDN, d)

(***************************************************************************)
(* The admin routes on their own: requests served from a store that a      *)
(* pass has left, with or without a manual record made before the pass.    *)
(***************************************************************************)
AdminStores ==
  {RunPass(st0, s, 0) :
     st0 \in {EmptyStore} \cup
             {[EmptyStore EXCEPT !.usersByDN = Put(@, buildManualDn(id), ManualDoc(id, body, 0))] :
                id \in ManualIds, body \in {b \in CreateBodies : ~CreateRejected(b)}},
     s \in Snapshots}

AdminInit ==
  /\ \E st \in AdminStores :
       /\ usersByDN = st.usersByDN
       /\ usersByGUID = st.usersByGUID
       /\ indexDB = st.indexDB
       /\ userTokensByDN = st.userTokensByDN
       /\ allDNs = st.allDNs
       /\ issued = {id \in ManualIds : Has(st.usersByDN, buildManualDn(id))}
  /\ db = EmptyMap
  /\ directory = <<>>
  /\ clock = 0
  /\ phase = "NotStarted"
  /\ exited = TRUE
  /\ exitCode = 0
  /\ client = "none"
  /\ dbHandle = "closed"
  /\ knownDNs = {}
  /\ seenDNs = {}
  /\ searchEntries = <<>>
  /\ idx = 0
  /\ upserts = 0
  /\ deletes = 0
  /\ entriesSkippedNoDN = 0
  /\ entriesSkippedManual = 0
  /\ failedIn = NULL
  /\ store0 = EmptyStore
  /\ db0 = EmptyMap
  /\ repeatOf = "none"
  /\ expected = EmptyStore
  /\ reply = 0
  /\ failures = 0
  /\ adminOps = 0
  /\ workers = NoWorkers
  /\ call = NoCall
  /\ req = NoRequest

SpecAdmin == AdminInit /\ [][AdminNext]_vars

\* A step of an admin route.
AdminStep == adminOps' = adminOps + 1

\* The record under dn was created, changed or removed by the step.
Touched(d) ==
  \/ Has(usersByDN, d) # Has(usersByDN', d)
  \/ Has(usersByDN, d) /\ Has(usersByDN', d) /\ usersByDN'[d] # usersByDN[d]

\* C30: an admin request writes usersByDN alone, and there only records with
\* isManual = true under a MANUAL:<id> dn; an update or delete answered 200
\* or 204 found a manual record, one for an absent or non-manual record is
\* answered 404; 404 and 400 leave usersByDN as it was, a create without
\* displayName and email is answered 400; an update keeps the record's dn,
\* guid and isManual.
C30_AdminFrame ==
  [][AdminStep =>
       /\ UNCHANGED <<usersByGUID, indexDB, userTokensByDN, allDNs, db>>
       /\ \A d \in DOMAIN usersByDN \cup DOMAIN usersByDN' :
            Touched(d) =>
              /\ d \in ManualDNs
              /\ Has(usersByDN, d) => IsManual(usersByDN[d])
              /\ Has(usersByDN', d) => IsManual(usersByDN'[d])
       /\ reply' \in {400, 404} => usersByDN' = usersByDN
       /\ reply' \in {200, 204} => \E d \in ManualDNs : ManualFound(usersByDN, d)
       /\ reply' = 201 =>
            \E d \in ManualDNs :
              /\ ~Has(usersByDN, d) /\ Has(usersByDN', d)
              /\ ~(Falsy(usersByDN'[d].displayName) /\ Falsy(usersByDN'[d].email))
       /\ reply' = 200 =>
            /\ DOMAIN usersByDN' = DOMAIN usersByDN
            /\ \A d \in DOMAIN usersByDN :
                 /\ usersByDN'[d].dn = usersByDN[d].dn
                 /\ usersByDN'[d].guid = usersByDN[d].guid
                 /\ IsManual(usersByDN'[d]) = IsManual(usersByDN[d])]_vars

\* An update or delete for MANUAL:1 was answered 404 while the store holds a
\* record under that dn that a pass has written.
C30_Witness ==
  /\ adminOps > 0 /\ reply = 404
  /\ Has(usersByDN, "MANUAL:1") /\ ~IsManual(usersByDN["MANUAL:1"])
  /\ Has(allDNs, "MANUAL:1")

====
